---- MODULE Spec2Model ----
(***************************************************************************)
(* SubdomainGenerator (src/subdomain_generator.py): the allowlist of main  *)
(* domains, the word dictionary, random label generation with a bounded    *)
(* retry loop, custom label normalisation, and random suggestions.         *)
(*                                                                         *)
(* A Python str is a sequence of characters; a character is a one-letter   *)
(* TLA+ string ("a", "-", " "), or the name of its code point ("U+00C9")   *)
(* when it is not ASCII.                                                   *)
(***************************************************************************)
EXTENDS Integers, Sequences, FiniteSets, TLC

(***************************************************************************)
(* Module-level data of src/subdomain_generator.py                         *)
(***************************************************************************)

\* MAIN_DOMAINS, lines 5-26
MAIN_DOMAINS ==
    << <<"a","c","c","e","s","s","c","a","m",".","o","r","g">>,
       <<"c","a","m","d","v","r",".","o","r","g">>,
       <<"c","a","s","a","c","a","m",".","n","e","t">>,
       <<"d","d","n","s","f","r","e","e",".","c","o","m">>,
       <<"d","d","n","s","g","e","e","k",".","c","o","m">>,
       <<"f","r","e","e","d","d","n","s",".","o","r","g">>,
       <<"g","i","i","z","e",".","c","o","m">>,
       <<"g","l","e","e","z","e",".","c","o","m">>,
       <<"k","o","z","o","w",".","c","o","m">>,
       <<"l","o","s","e","y","o","u","r","i","p",".","c","o","m">>,
       <<"m","y","w","i","r","e",".","o","r","g">>,
       <<"o","o","g","u","y",".","c","o","m">>,
       <<"t","h","e","w","o","r","k","p","c",".","c","o","m">>,
       <<"w","e","b","r","e","d","i","r","e","c","t",".","o","r","g">>,
       <<"1","c","o","o","l","d","n","s",".","c","o","m">>,
       <<"b","u","m","b","l","e","s","h","r","i","m","p",".","c","o","m">>,
       <<"d","y","n","u",".","n","e","t">>,
       <<"d","y","n","u","d","d","n","s",".","c","o","m">>,
       <<"d","d","n","s","g","u","r","u",".","c","o","m">>,
       <<"m","y","s","y","n","o","l","o","g","y",".","n","e","t">> >>

\* SUBDOMAIN_DICTIONARY["prefixes"], lines 30-35
DICT_PREFIXES ==
    << <<"m","y">>,
       <<"h","o","m","e">>,
       <<"o","f","f","i","c","e">>,
       <<"w","o","r","k">>,
       <<"d","e","v">>,
       <<"t","e","s","t">>,
       <<"d","e","m","o">>,
       <<"a","p","p">>,
       <<"w","e","b">>,
       <<"a","p","i">>,
       <<"s","e","c","u","r","e">>,
       <<"p","r","i","v","a","t","e">>,
       <<"p","u","b","l","i","c">>,
       <<"m","a","i","n">>,
       <<"p","r","i","m","a","r","y">>,
       <<"b","a","c","k","u","p">>,
       <<"t","e","m","p">>,
       <<"l","o","c","a","l">>,
       <<"r","e","m","o","t","e">>,
       <<"c","l","o","u","d">>,
       <<"m","o","b","i","l","e">>,
       <<"d","e","s","k","t","o","p">>,
       <<"s","e","r","v","e","r">>,
       <<"c","l","i","e","n","t">>,
       <<"a","d","m","i","n">>,
       <<"u","s","e","r">>,
       <<"g","u","e","s","t">>,
       <<"l","i","v","e">>,
       <<"s","t","a","g","e">>,
       <<"p","r","o","d">>,
       <<"b","e","t","a">>,
       <<"a","l","p","h","a">>,
       <<"v","1">>,
       <<"v","2">>,
       <<"n","e","w">>,
       <<"o","l","d">> >>

\* SUBDOMAIN_DICTIONARY["words"], lines 36-44
DICT_WORDS ==
    << <<"c","a","m","e","r","a">>,
       <<"m","o","n","i","t","o","r">>,
       <<"d","e","v","i","c","e">>,
       <<"s","y","s","t","e","m">>,
       <<"n","e","t","w","o","r","k">>,
       <<"s","e","r","v","e","r">>,
       <<"c","l","i","e","n","t">>,
       <<"h","u","b">>,
       <<"g","a","t","e","w","a","y">>,
       <<"r","o","u","t","e","r">>,
       <<"s","w","i","t","c","h">>,
       <<"a","c","c","e","s","s">>,
       <<"c","o","n","t","r","o","l">>,
       <<"s","e","c","u","r","i","t","y">>,
       <<"s","t","r","e","a","m">>,
       <<"v","i","d","e","o">>,
       <<"a","u","d","i","o">>,
       <<"d","a","t","a">>,
       <<"f","i","l","e">>,
       <<"b","a","c","k","u","p">>,
       <<"s","t","o","r","a","g","e">>,
       <<"c","l","o","u","d">>,
       <<"s","y","n","c">>,
       <<"s","h","a","r","e">>,
       <<"c","o","n","n","e","c","t">>,
       <<"l","i","n","k">>,
       <<"b","r","i","d","g","e">>,
       <<"t","u","n","n","e","l">>,
       <<"p","r","o","x","y">>,
       <<"c","a","c","h","e">>,
       <<"q","u","e","u","e">>,
       <<"s","e","r","v","i","c","e">>,
       <<"a","p","p">>,
       <<"t","o","o","l">>,
       <<"u","t","i","l","i","t","y">>,
       <<"h","e","l","p","e","r">>,
       <<"m","a","n","a","g","e","r">>,
       <<"v","i","e","w","e","r">>,
       <<"e","d","i","t","o","r">>,
       <<"p","l","a","y","e","r">>,
       <<"r","e","c","o","r","d","e","r">>,
       <<"s","c","a","n","n","e","r">>,
       <<"d","e","t","e","c","t","o","r">>,
       <<"s","e","n","s","o","r">>,
       <<"a","l","a","r","m">>,
       <<"a","l","e","r","t">>,
       <<"n","o","t","i","f","y">>,
       <<"m","e","s","s","a","g","e">>,
       <<"m","a","i","l">>,
       <<"c","h","a","t">>,
       <<"v","o","i","c","e">>,
       <<"c","a","l","l">>,
       <<"m","e","e","t","i","n","g">>,
       <<"c","o","n","f","e","r","e","n","c","e">> >>

\* SUBDOMAIN_DICTIONARY["suffixes"], lines 45-52
DICT_SUFFIXES ==
    << <<"c","a","m">>,
       <<"d","v","r">>,
       <<"n","v","r">>,
       <<"c","c","t","v">>,
       <<"i","p">>,
       <<"h","d">>,
       <<"4","k">>,
       <<"p","r","o">>,
       <<"p","l","u","s">>,
       <<"m","a","x">>,
       <<"m","i","n","i">>,
       <<"l","i","t","e">>,
       <<"b","a","s","i","c">>,
       <<"a","d","v","a","n","c","e","d">>,
       <<"p","r","e","m","i","u","m">>,
       <<"s","t","a","n","d","a","r","d">>,
       <<"c","u","s","t","o","m">>,
       <<"s","p","e","c","i","a","l">>,
       <<"s","e","c","u","r","e">>,
       <<"s","a","f","e">>,
       <<"g","u","a","r","d">>,
       <<"w","a","t","c","h">>,
       <<"v","i","e","w">>,
       <<"s","e","e">>,
       <<"l","o","o","k">>,
       <<"e","y","e">>,
       <<"l","e","n","s">>,
       <<"f","o","c","u","s">>,
       <<"z","o","o","m">>,
       <<"p","a","n">>,
       <<"t","i","l","t">>,
       <<"f","i","x","e","d">>,
       <<"m","o","b","i","l","e">>,
       <<"w","i","r","e","l","e","s","s">>,
       <<"w","i","r","e","d">>,
       <<"i","n","d","o","o","r">>,
       <<"o","u","t","d","o","o","r">>,
       <<"n","i","g","h","t">>,
       <<"d","a","y">>,
       <<"a","u","t","o">>,
       <<"m","a","n","u","a","l">>,
       <<"s","m","a","r","t">>,
       <<"a","i">>,
       <<"c","l","o","u","d">>,
       <<"l","o","c","a","l">>,
       <<"r","e","m","o","t","e">>,
       <<"d","i","r","e","c","t">>,
       <<"l","i","v","e">>,
       <<"r","e","c","o","r","d">>,
       <<"p","l","a","y","b","a","c","k">>,
       <<"a","r","c","h","i","v","e">> >>


\* SUBDOMAIN_DICTIONARY, lines 29-53
SUBDOMAIN_DICTIONARY ==
    [prefixes |-> DICT_PREFIXES, words |-> DICT_WORDS, suffixes |-> DICT_SUFFIXES]

(***************************************************************************)
(* Bounds of the model                                                     *)
(***************************************************************************)

\* The generator is checked with the first NDomains main domains.
NDomains == 2

\* The generator is checked with the first k tokens of each of the three
\* dictionary lists, for every k in 1 .. NTokens, and with the one token the
\* three lists share.
NTokens == 1

\* generate_subdomains is called with count in -1 .. MaxCount.
MaxCount == 3

\* The largest count of a concurrent call
MaxThreadCount == 2

\* The largest count submitted to the generate route
MaxRouteCount == 2

\* The cap of the generate route on count (src/routes.py line 267)
CountCap == 50

\* get_random_suggestions is called with count in -1 .. MaxSuggestions.
MaxSuggestions == 2

\* A custom label is  pre \o "a"^n \o post  with pre and post of at most
\* MaxAffixLen characters of AffixChars, and n = 0 or within Slack of the
\* DNS label limit.
MaxAffixLen == 1

Slack == 1

(***************************************************************************)
(* Program constants                                                       *)
(***************************************************************************)

\* len(subdomain_name) > 63, line 125
MaxLabelLen == 63

\* max_attempts = count * 3, line 93
RetryFactor == 3

(***************************************************************************)
(* Python str operations used by create_custom_subdomain (lines 114-120)   *)
(***************************************************************************)

Range(s) == {s[i] : i \in 1..Len(s)}

ASCII_UPPER ==
    <<"A","B","C","D","E","F","G","H","I","J","K","L","M",
      "N","O","P","Q","R","S","T","U","V","W","X","Y","Z">>

ASCII_LOWER ==
    <<"a","b","c","d","e","f","g","h","i","j","k","l","m",
      "n","o","p","q","r","s","t","u","v","w","x","y","z">>

ASCII_DIGITS == {"0","1","2","3","4","5","6","7","8","9"}

UpperChars == Range(ASCII_UPPER)

\* What str.lower() makes of one character: an ASCII capital becomes its
\* small letter; of the other characters the model knows E-acute (U+00C9,
\* lowered to U+00E9), the dotted capital I (U+0130, lowered to the two
\* code points "i" U+0307) and the Kelvin sign (U+212A, lowered to ASCII
\* "k"); everything else is unchanged.
LowerChar(c) ==
    IF c \in UpperChars
    THEN <<ASCII_LOWER[CHOOSE i \in 1..Len(ASCII_UPPER) : ASCII_UPPER[i] = c]>>
    ELSE IF c = "U+00C9" THEN <<"U+00E9">>
    ELSE IF c = "U+0130" THEN <<"i", "U+0307">>
    ELSE IF c = "U+212A" THEN <<"k">>
    ELSE <<c>>

RECURSIVE LowerFrom(_, _)
LowerFrom(s, i) ==
    IF i > Len(s) THEN <<>> ELSE LowerChar(s[i]) \o LowerFrom(s, i + 1)

\* str.lower(), line 114
Lower(s) == LowerFrom(s, 1)

\* The characters str.strip() removes when called without an argument
\* (those the model knows: space, tab, line feed, no-break space).
WHITESPACE == {" ", "\t", "\n", "U+00A0"}

RECURSIVE FirstKept(_, _, _)
\* The first position from i on whose character is not in chars
\* (Len(s) + 1 when there is none).
FirstKept(s, chars, i) ==
    IF i <= Len(s) /\ s[i] \in chars THEN FirstKept(s, chars, i + 1) ELSE i

RECURSIVE LastKept(_, _, _)
\* The last position up to i whose character is not in chars (0 when there
\* is none).
LastKept(s, chars, i) ==
    IF i >= 1 /\ s[i] \in chars THEN LastKept(s, chars, i - 1) ELSE i

\* str.strip(chars): drop the leading and trailing characters in chars.
Strip(s, chars) ==
    SubSeq(s, FirstKept(s, chars, 1), LastKept(s, chars, Len(s)))

\* The character class [a-z0-9-] of line 118.
LabelChars == Range(ASCII_LOWER) \cup ASCII_DIGITS \cup {"-"}

RECURSIVE ReplaceInvalidFrom(_, _)
ReplaceInvalidFrom(s, i) ==
    IF i > Len(s) THEN <<>>
    ELSE <<IF s[i] \in LabelChars THEN s[i] ELSE "-">> \o ReplaceInvalidFrom(s, i + 1)

\* re.sub(r'[^a-z0-9-]', '-', s), line 118: every character outside the
\* class is one match, replaced by a hyphen.
ReplaceInvalidKeepUnderscore(s) ==
    [i \in 1..Len(s) |-> IF s[i] \in LabelChars \cup {"_"} THEN s[i] ELSE "-"]

ReplaceInvalid(s) == ReplaceInvalidFrom(s, 1)

\* The end of the run of hyphens that starts at position i.
RECURSIVE HyphenRunEnd(_, _)
HyphenRunEnd(s, i) ==
    IF i < Len(s) /\ s[i + 1] = "-" THEN HyphenRunEnd(s, i + 1) ELSE i

RECURSIVE CollapseHyphensFrom(_, _)
CollapseHyphensFrom(s, i) ==
    IF i > Len(s) THEN <<>>
    ELSE IF s[i] = "-"
         THEN <<"-">> \o CollapseHyphensFrom(s, HyphenRunEnd(s, i) + 1)
         ELSE <<s[i]>> \o CollapseHyphensFrom(s, i + 1)

\* re.sub(r'-+', '-', s), line 119: scanning from the left, each maximal
\* run of hyphens is one match, replaced by a single hyphen.
CollapseHyphensSkipped(s) == s

CollapseHyphens(s) == CollapseHyphensFrom(s, 1)

\* Lines 114-120: the label as create_custom_subdomain rewrites it.
NormalizeLabelCollapseFirst(subdomain_name) ==
    Strip(ReplaceInvalid(CollapseHyphens(Strip(Lower(subdomain_name), WHITESPACE))),
          {"-"})

NormalizeLabel(subdomain_name) ==
    Strip(CollapseHyphens(ReplaceInvalid(Strip(Lower(subdomain_name), WHITESPACE))),
          {"-"})

(***************************************************************************)
(* State                                                                   *)
(***************************************************************************)

VARIABLES
    main_domains,    \* self.main_domains (line 57)
    dictionary,      \* self.dictionary (line 58)
    pc,              \* "idle", "loop" (inside the while of line 96), "returned", "raised"
    op,              \* the method being called, "none" when idle
    main_domain,     \* argument main_domain
    count,           \* argument count
    use_prefix,      \* argument use_prefix
    use_suffix,      \* argument use_suffix
    subdomain_name,  \* argument subdomain_name of create_custom_subdomain
    subdomains,      \* local set subdomains (line 92)
    max_attempts,    \* local max_attempts (line 93)
    attempts,        \* local attempts (line 94)
    result,          \* the value returned
    error,           \* the message of the ValueError raised, "none" otherwise
    label_gens,      \* calls of generate_subdomain_name made by the running call
    rng_used,        \* whether the running call has called random.choice
    threads,         \* the generate_subdomains calls of concurrent callers:
                     \* for each caller, the frame of its call
    request          \* the request a route of src/routes.py is handling

vars ==
    <<main_domains, dictionary, pc, op, main_domain, count, use_prefix, use_suffix,
      subdomain_name, subdomains, max_attempts, attempts, result, error,
      label_gens, rng_used, threads, request>>

\* The variables of the call of the single caller.
single ==
    <<pc, op, main_domain, count, use_prefix, use_suffix, subdomain_name,
      subdomains, max_attempts, attempts, result, error, label_gens, rng_used>>

config == <<main_domains, dictionary>>

args == <<main_domain, count, use_prefix, use_suffix, subdomain_name>>

locals == <<subdomains, max_attempts, attempts>>

(***************************************************************************)
(* Helpers                                                                 *)
(***************************************************************************)

\* f"{subdomain_name}.{main_domain}", lines 98, 128 and 137
FullDomainNoDot(name, domain) == name \o domain

FullDomain(name, domain) == name \o <<".">> \o domain

RECURSIVE Join(_, _)
RECURSIVE JoinWithUnderscore(_, _)
JoinWithUnderscore(sep, parts) ==
    IF parts = <<>> THEN <<>>
    ELSE IF Len(parts) = 1 THEN parts[1]
    ELSE parts[1] \o <<"_">> \o JoinWithUnderscore(sep, Tail(parts))

\* "-".join(parts), line 84
Join(sep, parts) ==
    IF parts = <<>> THEN <<>>
    ELSE IF Len(parts) = 1 THEN parts[1]
    ELSE parts[1] \o sep \o Join(sep, Tail(parts))

\* The messages of the four ValueErrors (lines 90/107, 111, 123, 126).
ERR_NOT_ALLOWED == "Main domain is not in the allowed list"

ERR_EMPTY == "Subdomain name cannot be empty"

ERR_ONLY_INVALID == "Subdomain name contains only invalid characters"

ERR_TOO_LONG == "Subdomain name is too long (max 63 characters)"

\* The outcome of a call: a returned value or a raised ValueError.
Return(v) == [ok |-> TRUE, value |-> v, error |-> "none"]

Raise(msg) == [ok |-> FALSE, value |-> <<>>, error |-> msg]

\* main_domain in self.main_domains (lines 89, 106): list membership by ==.
IsAllowedIgnoreCase(domain) == Lower(domain) \in Range(main_domains)

IsAllowed(domain) == domain \in Range(main_domains)

(***************************************************************************)
(* get_main_domains, lines 60-62                                           *)
(***************************************************************************)

\* A list the caller holds is a list object: object says which one ("new"
\* for a list the call created, "MAIN_DOMAINS" for the module's list that
\* self.main_domains is, line 57), items is what it holds.

\* self.main_domains.copy(), line 62: a new list with the same items.
get_main_domains_no_copy(list) == [object |-> "MAIN_DOMAINS", items |-> list]

get_main_domains(list) == [object |-> "new", items |-> list]

(***************************************************************************)
(* generate_subdomain_name, lines 64-84                                    *)
(***************************************************************************)

\* random.choice([True, False]) and random.choice(list) pick any element, so
\* generate_subdomain_name is modelled by the set of labels it can return:
\* each step below is the set of values parts can hold after the lines named.

\* parts after lines 66-69: empty, or one prefix when use_prefix is set and
\* the coin of line 68 says so.
PartsAfterPrefix(with_prefix) ==
    {<<>>} \cup (IF with_prefix THEN {<<p>> : p \in Range(dictionary.prefixes)} ELSE {})

\* parts after line 72: a word is always appended.
PartsAfterWord(with_prefix) ==
    {Append(parts, w) : parts \in PartsAfterPrefix(with_prefix),
                        w \in Range(dictionary.words)}

\* parts after lines 74-75: a suffix is appended when use_suffix is set and
\* the coin of line 74 says so.
PartsAfterSuffix(with_prefix, with_suffix) ==
    PartsAfterWord(with_prefix) \cup
    (IF with_suffix
     THEN {Append(parts, s) : parts \in PartsAfterWord(with_prefix),
                              s \in Range(dictionary.suffixes)}
     ELSE {})

\* parts after lines 78-82: a single part gets a prefix in front or a suffix
\* behind, as the coin of line 79 says.
PartsAfterExtra(with_prefix, with_suffix) ==
    UNION {IF Len(parts) = 1
           THEN {<<p>> \o parts : p \in Range(dictionary.prefixes)} \cup
                {Append(parts, s) : s \in Range(dictionary.suffixes)}
           ELSE {parts} : parts \in PartsAfterSuffix(with_prefix, with_suffix)}

\* The labels generate_subdomain_name(use_prefix, use_suffix) can return.
generate_subdomain_name_defaults(with_prefix, with_suffix) ==
    {Join(<<"-">>, parts) : parts \in PartsAfterExtra(TRUE, TRUE)}

generate_subdomain_name(with_prefix, with_suffix) ==
    {Join(<<"-">>, parts) : parts \in PartsAfterExtra(with_prefix, with_suffix)}

(***************************************************************************)
(* generate_subdomains, lines 86-102                                       *)
(***************************************************************************)

\* subdomains = set(), line 92: a new, empty set, whatever full domains an
\* earlier call has returned.
RememberedSubdomains(earlier) == earlier

NewSubdomains(earlier) == {}

\* max_attempts = count * 3, line 93
MaxAttemptsTimesFour(n) == n * (RetryFactor + 1)

MaxAttempts(n) == n * RetryFactor

LoopCondAtLeastOnce ==
    attempts = 0 \/ (Cardinality(subdomains) < count /\ attempts < max_attempts)

\* The condition of the while, line 96
LoopCond == Cardinality(subdomains) < count /\ attempts < max_attempts

\* list(subdomains), line 102: the elements of the set, each once, in an
\* order the caller cannot predict.
ListOfSet(S) ==
    {f \in [1..Cardinality(S) -> S] : \A i, j \in 1..Cardinality(S) : f[i] = f[j] => i = j}

\* The outcomes of line 102.
generate_return_strict(S, n) ==
    IF Cardinality(S) < n THEN {Raise("Could not generate enough unique subdomains")}
    ELSE {Return(l) : l \in ListOfSet(S)}

generate_return(S, n) == {Return(l) : l \in ListOfSet(S)}

(***************************************************************************)
(* create_custom_subdomain, lines 104-128                                  *)
(***************************************************************************)

\* len(subdomain_name) > 63, line 125
TooLongFrom63(name) == Len(name) >= MaxLabelLen

TooLong(name) == Len(name) > MaxLabelLen

\* Lines 122-128, on the rewritten label.
CheckNormalizedNoEmptyCheck(name, domain) ==
    IF TooLong(name) THEN Raise(ERR_TOO_LONG)
    ELSE Return(FullDomain(name, domain))

CheckNormalized(name, domain) ==
    IF name = <<>> THEN Raise(ERR_ONLY_INVALID)
    ELSE IF TooLong(name) THEN Raise(ERR_TOO_LONG)
    ELSE Return(FullDomain(name, domain))

create_custom_subdomain_label_first(name, domain) ==
    IF name = <<>> THEN Raise(ERR_EMPTY)
    ELSE IF ~IsAllowed(domain) THEN Raise(ERR_NOT_ALLOWED)
    ELSE CheckNormalized(NormalizeLabel(name), domain)

create_custom_subdomain(name, domain) ==
    IF ~IsAllowed(domain) THEN Raise(ERR_NOT_ALLOWED)
    ELSE IF name = <<>> THEN Raise(ERR_EMPTY)
    ELSE CheckNormalized(NormalizeLabel(name), domain)

(***************************************************************************)
(* get_random_suggestions, lines 130-145                                   *)
(***************************************************************************)

\* The number of iterations of "for _ in range(count)", line 134.
RangeLenFromOne(n) == IF n > 1 THEN n - 1 ELSE 0

RangeLen(n) == IF n > 0 THEN n ELSE 0

\* One suggestion, lines 135-143: the main domain random.choice picked and
\* the label generate_subdomain_name() returned.
Suggestion(domain, label) ==
    [subdomain |-> label, main_domain |-> domain, full_domain |-> FullDomain(label, domain)]

(***************************************************************************)
(* Inputs of the calls                                                     *)
(***************************************************************************)

\* Main domains that are not in MAIN_DOMAINS: the first one in capitals, and
\* a domain of another provider.
INVALID_DOMAINS ==
    { <<"A","C","C","E","S","S","C","A","M",".","O","R","G">>,
      <<"n","o","t","-","a","-","r","e","a","l","-","d","o","m","a","i","n",".","c","o","m">> }

DomainInputs == {main_domains[1], main_domains[Len(main_domains)]} \cup INVALID_DOMAINS

AffixChars == {"A", "-", " "}

RECURSIVE StringsUpTo(_, _)
\* The strings of at most n characters of chars.
StringsUpTo(chars, n) ==
    IF n = 0 THEN {<<>>}
    ELSE LET shorter == StringsUpTo(chars, n - 1)
         IN  shorter \cup {Append(s, c) : s \in shorter, c \in chars}

Fill(n) == [i \in 1..n |-> "a"]

FillLens == {0} \cup ((MaxLabelLen - Slack)..(MaxLabelLen + Slack))

\* Labels of the specification's examples and of the characters str.lower()
\* and str.strip() treat specially.
EXAMPLE_LABELS ==
    { <<"M","y"," ","C","o","o","l"," ","R","o","u","t","e","r","!">>,
      <<"-","-","-">>,
      <<"v","a","l","i","d","-","n","a","m","e">>,
      <<"a","-","-","b","_","_","4","k">>,
      <<" ","\t","h","o","m","e","\n">>,
      <<"U+00A0">>,
      <<"c","a","f","U+00C9">>,
      <<"U+0130","p">>,
      <<"U+212A","m">>,
      <<"!","!">> }

LabelInputs ==
    EXAMPLE_LABELS \cup
    {pre \o Fill(n) \o post : pre \in StringsUpTo(AffixChars, MaxAffixLen),
                              n \in FillLens,
                              post \in StringsUpTo(AffixChars, MaxAffixLen)}

Take(s, n) == SubSeq(s, 1, n)

(***************************************************************************)
(* Init: a SubdomainGenerator just constructed (lines 56-58), no call made *)
(***************************************************************************)

NoCall ==
    /\ pc = "idle"
    /\ op = "none"
    /\ main_domain = <<>>
    /\ count = 0
    /\ use_prefix = FALSE
    /\ use_suffix = FALSE
    /\ subdomain_name = <<>>
    /\ subdomains = {}
    /\ max_attempts = 0
    /\ attempts = 0
    /\ result = <<>>
    /\ error = "none"
    /\ label_gens = 0
    /\ rng_used = FALSE

\* The position of token x in a list that holds it.
IndexOf(list, x) == CHOOSE i \in 1..Len(list) : list[i] = x

\* "cloud" stands in all three lists (lines 33, 40 and 51).
CLOUD == <<"c","l","o","u","d">>

\* The dictionaries the generator is run with: the first k tokens of each
\* list of SUBDOMAIN_DICTIONARY, and the dictionary cut down to "cloud", the
\* token that prefixes, words and suffixes all hold.
Dictionaries ==
    {[prefixes |-> Take(SUBDOMAIN_DICTIONARY.prefixes, k),
      words    |-> Take(SUBDOMAIN_DICTIONARY.words, k),
      suffixes |-> Take(SUBDOMAIN_DICTIONARY.suffixes, k)] : k \in 1..NTokens}
    \cup
    {[prefixes |-> <<SUBDOMAIN_DICTIONARY.prefixes[IndexOf(SUBDOMAIN_DICTIONARY.prefixes, CLOUD)]>>,
      words    |-> <<SUBDOMAIN_DICTIONARY.words[IndexOf(SUBDOMAIN_DICTIONARY.words, CLOUD)]>>,
      suffixes |-> <<SUBDOMAIN_DICTIONARY.suffixes[IndexOf(SUBDOMAIN_DICTIONARY.suffixes, CLOUD)]>>]}

\* The concurrent callers.
Callers == {"A", "B"}

\* The frame of a caller that is not inside generate_subdomains.
NoFrame ==
    [pc |-> "idle", main_domain |-> <<>>, count |-> 0, subdomains |-> {},
     max_attempts |-> 0, attempts |-> 0, full_subdomain |-> <<>>, result |-> <<>>,
     generated |-> {}]

\* No route is handling a request.
NoRequest ==
    [route |-> "none", pc |-> "idle", submitted |-> 0, success_count |-> 0,
     add_calls |-> <<>>, answers |-> <<>>, flashes |-> <<>>, earlier |-> 0,
     response |-> "none"]

Init ==
    /\ main_domains = Take(MAIN_DOMAINS, NDomains)
    /\ dictionary \in Dictionaries
    /\ NoCall
    /\ threads = [t \in Callers |-> NoFrame]
    /\ request = NoRequest

(***************************************************************************)
(* Actions                                                                 *)
(***************************************************************************)

\* generate_subdomains(main_domain, count, use_prefix, use_suffix) up to the
\* first test of the while: lines 86-94.
StartGenerateSubdomains(d, n, up, us) ==
    /\ op' = "generate_subdomains"
    /\ main_domain' = d
    /\ count' = n
    /\ use_prefix' = up
    /\ use_suffix' = us
    /\ IF ~IsAllowed(d)
       THEN /\ pc' = "raised"
            /\ error' = ERR_NOT_ALLOWED
            /\ UNCHANGED locals
       ELSE /\ pc' = "loop"
            /\ error' = "none"
            /\ subdomains' = NewSubdomains(Range(result))
            /\ max_attempts' = MaxAttempts(n)
            /\ attempts' = 0
    /\ UNCHANGED <<config, subdomain_name, result, label_gens, rng_used>>

CallGenerateSubdomains ==
    /\ UNCHANGED <<threads, request>>
    /\ pc = "idle"
    /\ \E d \in DomainInputs, n \in -1..MaxCount, up \in BOOLEAN, us \in BOOLEAN :
          StartGenerateSubdomains(d, n, up, us)

\* The caller that asked for one full domain and got it asks again, with the
\* same arguments, still holding the list of the first call: lines 86-94
\* once more.
CallGenerateAgain ==
    /\ UNCHANGED <<threads, request>>
    /\ pc = "returned"
    /\ op = "generate_subdomains"
    /\ count = 1
    /\ pc' = "loop"
    /\ subdomains' = NewSubdomains(Range(result))
    /\ max_attempts' = MaxAttempts(count)
    /\ attempts' = 0
    /\ label_gens' = 0
    /\ rng_used' = FALSE
    /\ UNCHANGED <<config, op, args, result, error>>

\* One iteration of the while: lines 96-100.
LoopIteration ==
    /\ UNCHANGED <<threads, request>>
    /\ pc = "loop"
    /\ LoopCond
    /\ \E name \in generate_subdomain_name(use_prefix, use_suffix) :
          subdomains' = subdomains \cup {FullDomain(name, main_domain)}
    /\ attempts' = attempts + 1
    /\ label_gens' = label_gens + 1
    /\ rng_used' = TRUE
    /\ UNCHANGED <<config, pc, op, args, max_attempts, result, error>>

\* The while ends and the list is returned: lines 96 and 102. The frame of
\* the call (its locals and its count of label generations) ends with it.
GenerateReturn ==
    /\ UNCHANGED <<threads, request>>
    /\ pc = "loop"
    /\ ~LoopCond
    /\ \E o \in generate_return(subdomains, count) :
          /\ pc' = IF o.ok THEN "returned" ELSE "raised"
          /\ result' = o.value
          /\ error' = o.error
    /\ subdomains' = {}
    /\ max_attempts' = 0
    /\ attempts' = 0
    /\ label_gens' = 0
    /\ UNCHANGED <<config, op, args, rng_used>>

\* create_custom_subdomain(subdomain_name, main_domain): lines 104-128.
CallCreateCustomSubdomainRandomized ==
    /\ UNCHANGED <<threads, request>>
    /\ pc = "idle"
    /\ \E name \in LabelInputs, d \in DomainInputs :
          LET o == create_custom_subdomain(name, d)
          IN  /\ op' = "create_custom_subdomain"
              /\ subdomain_name' = name
              /\ main_domain' = d
              /\ pc' = IF o.ok THEN "returned" ELSE "raised"
              /\ result' \in IF o.ok
                              THEN {FullDomain(Join(<<"-">>, <<NormalizeLabel(name), w>>), d) :
                                       w \in Range(dictionary.words)}
                              ELSE {o.value}
              /\ error' = o.error
              /\ rng_used' = o.ok
    /\ UNCHANGED <<config, count, use_prefix, use_suffix, locals, label_gens>>

StartCreateCustomSubdomain(name, d) ==
    LET o == create_custom_subdomain(name, d)
    IN  /\ op' = "create_custom_subdomain"
        /\ subdomain_name' = name
        /\ main_domain' = d
        /\ pc' = IF o.ok THEN "returned" ELSE "raised"
        /\ result' = o.value
        /\ error' = o.error
        /\ UNCHANGED <<config, count, use_prefix, use_suffix, locals, label_gens, rng_used>>

CallCreateCustomSubdomain ==
    /\ UNCHANGED <<threads, request>>
    /\ pc = "idle"
    /\ \E name \in LabelInputs, d \in DomainInputs :
          StartCreateCustomSubdomain(name, d)

\* The caller submits the label of the full domain it got back, with the
\* same main domain: lines 104-128 once more.
CallCreateWithReturnedLabel ==
    /\ UNCHANGED <<threads, request>>
    /\ pc = "returned"
    /\ op = "create_custom_subdomain"
    /\ StartCreateCustomSubdomain(SubSeq(result, 1, Len(result) - Len(main_domain) - 1),
                                  main_domain)

\* get_random_suggestions(count): lines 130-145.
CallGetRandomSuggestions ==
    /\ UNCHANGED <<threads, request>>
    /\ pc = "idle"
    /\ \E n \in -1..MaxSuggestions :
          /\ op' = "get_random_suggestions"
          /\ count' = n
          /\ \E picks \in [1..RangeLen(n) ->
                             Range(main_domains) \X generate_subdomain_name(TRUE, TRUE)] :
                result' = [i \in 1..RangeLen(n) |-> Suggestion(picks[i][1], picks[i][2])]
          /\ rng_used' = (RangeLen(n) > 0)
    /\ pc' = "returned"
    /\ error' = "none"
    /\ UNCHANGED <<config, main_domain, use_prefix, use_suffix, subdomain_name,
                   locals, label_gens>>

\* get_main_domains(): lines 60-62.
CallGetMainDomains ==
    /\ UNCHANGED <<threads, request>>
    /\ pc = "idle"
    /\ op' = "get_main_domains"
    /\ pc' = "returned"
    /\ result' = get_main_domains(main_domains)
    /\ error' = "none"
    /\ UNCHANGED <<config, args, locals, label_gens, rng_used>>

\* The caller changes the list get_main_domains gave it (src/routes.py holds
\* it from line 173 on): it drops the first item or appends a domain. The
\* list object changes; self.main_domains changes with it exactly when it is
\* the same object.
MutateReturnedList ==
    /\ UNCHANGED <<threads, request>>
    /\ pc = "returned"
    /\ op = "get_main_domains"
    /\ \E items \in (IF result.items # <<>> THEN {Tail(result.items)} ELSE {})
                     \cup (IF Len(result.items) <= Len(main_domains)
                           THEN {Append(result.items, d) : d \in INVALID_DOMAINS}
                           ELSE {}) :
          /\ result' = [result EXCEPT !.items = items]
          /\ main_domains' = IF result.object = "MAIN_DOMAINS" THEN items ELSE main_domains
    /\ UNCHANGED <<dictionary, pc, op, args, locals, error, label_gens, rng_used>>

\* generate_subdomain_name(use_prefix, use_suffix) called on its own:
\* lines 64-84.
CallGenerateSubdomainName ==
    /\ UNCHANGED <<threads, request>>
    /\ pc = "idle"
    /\ \E up \in BOOLEAN, us \in BOOLEAN :
          /\ use_prefix' = up
          /\ use_suffix' = us
          /\ result' \in generate_subdomain_name(up, us)
    /\ op' = "generate_subdomain_name"
    /\ pc' = "returned"
    /\ error' = "none"
    /\ rng_used' = TRUE
    /\ UNCHANGED <<config, main_domain, count, subdomain_name, locals, label_gens>>

\* The variables of the call as they are when no call is running.
ResetCall ==
    /\ pc' = "idle"
    /\ op' = "none"
    /\ main_domain' = <<>>
    /\ count' = 0
    /\ use_prefix' = FALSE
    /\ use_suffix' = FALSE
    /\ subdomain_name' = <<>>
    /\ subdomains' = {}
    /\ max_attempts' = 0
    /\ attempts' = 0
    /\ result' = <<>>
    /\ error' = "none"
    /\ label_gens' = 0
    /\ rng_used' = FALSE

\* The caller has taken the result or caught the ValueError
\* (src/routes.py, lines 263-287 and 302-317); the generator is called again.
Finish ==
    /\ pc \in {"returned", "raised"}
    /\ ResetCall
    /\ UNCHANGED <<config, threads, request>>

Next ==
    \/ CallGenerateSubdomains
    \/ LoopIteration
    \/ GenerateReturn
    \/ CallCreateCustomSubdomain
    \/ CallGetRandomSuggestions
    \/ CallGetMainDomains
    \/ MutateReturnedList
    \/ CallGenerateSubdomainName
    \/ CallGenerateAgain
    \/ CallCreateWithReturnedLabel
    \/ Finish

Spec == Init /\ [][Next]_vars

(***************************************************************************)
(* Concurrent calls of generate_subdomains                                 *)
(***************************************************************************)

\* Each caller runs generate_subdomains (lines 86-102) with the default
\* flags in its own frame; the callers share self.main_domains,
\* self.dictionary and the random module, and their steps interleave in any
\* order. pc of a frame: "idle", "loop" (at the test of line 96), "add"
\* (between lines 98 and 99), "returned". generated is the set of full
\* domains the call itself has built at line 98.

\* subdomains.add(full_subdomain), line 99: the set of the caller's own
\* frame gets the element.
AddSubdomainShared(frames, t, full) ==
    [u \in DOMAIN frames |-> [frames[u] EXCEPT !.subdomains = @ \cup {full}]]

AddSubdomain(frames, t, full) ==
    [frames EXCEPT ![t].subdomains = @ \cup {full}]

\* Lines 86-94 for a main domain of the allowlist.
ThreadCall(t) ==
    /\ threads[t].pc = "idle"
    /\ \E d \in DomainInputs, n \in -1..MaxThreadCount :
          /\ IsAllowed(d)
          /\ threads' = [threads EXCEPT ![t] =
                 [pc |-> "loop", main_domain |-> d, count |-> n,
                  subdomains |-> NewSubdomains({}), max_attempts |-> MaxAttempts(n),
                  attempts |-> 0, full_subdomain |-> <<>>, result |-> <<>>,
                  generated |-> {}]]
    /\ UNCHANGED <<config, single, request>>

\* Lines 96-98: the test of the while holds, a label is generated and the
\* full domain is built.
ThreadGenerate(t) ==
    LET f == threads[t]
    IN  /\ f.pc = "loop"
        /\ Cardinality(f.subdomains) < f.count
        /\ f.attempts < f.max_attempts
        /\ \E name \in generate_subdomain_name(TRUE, TRUE) :
              threads' = [threads EXCEPT
                 ![t].pc = "add",
                 ![t].full_subdomain = FullDomain(name, f.main_domain),
                 ![t].generated = @ \cup {FullDomain(name, f.main_domain)}]
        /\ UNCHANGED <<config, single, request>>

\* Lines 99-100: the full domain is added and the attempt counted.
ThreadAdd(t) ==
    /\ threads[t].pc = "add"
    /\ threads' = [AddSubdomain(threads, t, threads[t].full_subdomain) EXCEPT
                      ![t].pc = "loop",
                      ![t].attempts = @ + 1,
                      ![t].full_subdomain = <<>>]
    /\ UNCHANGED <<config, single, request>>

\* Lines 96 and 102: the test of the while fails and the list is returned.
ThreadReturn(t) ==
    LET f == threads[t]
    IN  /\ f.pc = "loop"
        /\ ~(Cardinality(f.subdomains) < f.count /\ f.attempts < f.max_attempts)
        /\ \E o \in generate_return(f.subdomains, f.count) :
              threads' = [threads EXCEPT ![t].pc = "returned", ![t].result = o.value]
        /\ UNCHANGED <<config, single, request>>

\* The caller has taken its list.
ThreadFinish(t) ==
    /\ threads[t].pc = "returned"
    /\ threads' = [threads EXCEPT ![t] = NoFrame]
    /\ UNCHANGED <<config, single, request>>

NextConcurrent ==
    \E t \in Callers :
       \/ ThreadCall(t)
       \/ ThreadGenerate(t)
       \/ ThreadAdd(t)
       \/ ThreadReturn(t)
       \/ ThreadFinish(t)

\* The concurrent callers run on a dictionary of one token per list.
InitConcurrent ==
    /\ Init
    /\ Len(dictionary.prefixes) = 1
    /\ Len(dictionary.words) = 1
    /\ Len(dictionary.suffixes) = 1

ConcurrentSpec == InitConcurrent /\ [][NextConcurrent]_vars

(***************************************************************************)
(* The generate and add-custom routes, src/routes.py lines 248-317         *)
(***************************************************************************)

\* A request is handled by one route. request.pc: "idle", "called" (the
\* generator has been called), "done" (the response is made). add_calls are
\* the names passed to DynuAPI.add_domain, in order, answers what add_domain
\* answered to each; flashes is
\* session["flash_messages"], earlier the number of messages that were in
\* it when the request came.

\* A flash message, as set_flash appends it (lines 18-22).
Flash(category, kind, n, total, name, message) ==
    [category |-> category, kind |-> kind, n |-> n, total |-> total, name |-> name,
     message |-> message]

\* A message of an earlier request that has not been shown yet.
EARLIER_FLASH == Flash("info", "earlier", 0, 0, <<>>, "none")

\* Lines 278-281 of the generate route.
GenerateFlashesEitherOr(success_count, total) ==
    IF success_count > 0
    THEN <<Flash("success", "added", success_count, total, <<>>, "none")>>
    ELSE IF success_count < total
    THEN <<Flash("error", "failed", total - success_count, total, <<>>, "none")>>
    ELSE <<>>

GenerateFlashes(success_count, total) ==
    (IF success_count > 0
     THEN <<Flash("success", "added", success_count, total, <<>>, "none")>>
     ELSE <<>>)
    \o
    (IF success_count < total
     THEN <<Flash("error", "failed", total - success_count, total, <<>>, "none")>>
     ELSE <<>>)

\* Lines 309-312 of the add-custom route.
CustomFlashes(success_count, full_subdomain) ==
    IF success_count > 0
    THEN <<Flash("success", "added", 1, 1, full_subdomain, "none")>>
    ELSE <<Flash("error", "failed", 1, 1, full_subdomain, "none")>>

\* Lines 283-284 and 314-315: the ValueError is caught and shown.
ErrorFlashesDefaultCategory(message) == <<Flash("info", "error", 0, 0, <<>>, message)>>

ErrorFlashes(message) == <<Flash("error", "error", 0, 0, <<>>, message)>>

\* count=min(count, 50), line 267
UncappedCount(n) == n

CappedCount(n) == IF n <= CountCap THEN n ELSE CountCap

\* count: int = Form(10), line 253: the client submits any integer. The
\* small counts, the cap itself and the first count above it.
SubmittedCounts == (-1..MaxRouteCount) \cup {CountCap, CountCap + 1}

\* The labels submitted to the add-custom route.
RouteLabelInputs == EXAMPLE_LABELS \cup {<<>>, Fill(MaxLabelLen + 1)}

\* The request as the try block is entered (lines 263 and 302).
NewRequest(route, submitted, flashes) ==
    [route |-> route, pc |-> "called", submitted |-> submitted, success_count |-> 0,
     add_calls |-> <<>>, answers |-> <<>>, flashes |-> flashes,
     earlier |-> Len(flashes), response |-> "none"]

\* The generate route up to the first test of the while of
\* generate_subdomains: lines 249-267.
RouteGenerate ==
    /\ request.pc = "idle"
    /\ pc = "idle"
    /\ \E d \in DomainInputs, n \in SubmittedCounts, up \in BOOLEAN, us \in BOOLEAN,
          flashes \in {<<>>, <<EARLIER_FLASH>>} :
          /\ StartGenerateSubdomains(d, CappedCount(n), up, us)
          /\ request' = NewRequest("generate", n, flashes)
    /\ UNCHANGED threads

\* The add-custom route up to the return of create_custom_subdomain:
\* lines 290-304.
RouteAddCustom ==
    /\ request.pc = "idle"
    /\ pc = "idle"
    /\ \E name \in RouteLabelInputs, d \in DomainInputs,
          flashes \in {<<>>, <<EARLIER_FLASH>>} :
          /\ StartCreateCustomSubdomain(name, d)
          /\ request' = NewRequest("add_custom", 0, flashes)
    /\ UNCHANGED threads

\* The account of the request is not found: lines 259-261 and 298-300.
RouteAccountMissing ==
    /\ request.pc = "idle"
    /\ pc = "idle"
    /\ \E route \in {"generate", "add_custom"} :
          request' = [NoRequest EXCEPT !.route = route, !.pc = "done", !.response = "404"]
    /\ UNCHANGED <<config, single, threads>>

\* The names the route passes to add_domain: the list generate_subdomains
\* returned (line 274) or the one name create_custom_subdomain returned
\* (line 307).
NamesToAdd == IF request.route = "generate" THEN result ELSE <<result>>

\* One call of DynuAPI.add_domain (src/models.py lines 180-184), which
\* answers whether the provider's status was 200: lines 274-276 and 307.
RouteAddDomain ==
    /\ request.pc = "called"
    /\ pc = "returned"
    /\ Len(request.add_calls) < Len(NamesToAdd)
    /\ \E ok \in BOOLEAN :
          request' = [request EXCEPT
             !.add_calls = Append(@, NamesToAdd[Len(request.add_calls) + 1]),
             !.answers = Append(@, ok),
             !.success_count = IF ok THEN @ + 1 ELSE @]
    /\ UNCHANGED <<config, single, threads>>

\* The flashes and the redirect: lines 278-286 and 309-317.
RouteRespond ==
    /\ request.pc = "called"
    /\ \/ /\ pc = "returned"
          /\ Len(request.add_calls) = Len(NamesToAdd)
          /\ request' = [request EXCEPT
                !.pc = "done",
                !.flashes = @ \o (IF request.route = "generate"
                                  THEN GenerateFlashes(request.success_count, Len(result))
                                  ELSE CustomFlashes(request.success_count, result)),
                !.response = "redirect"]
       \/ /\ pc = "raised"
          /\ request' = [request EXCEPT
                !.pc = "done",
                !.flashes = @ \o ErrorFlashes(error),
                !.response = "redirect"]
    /\ UNCHANGED <<config, single, threads>>

\* The response is sent; the page the redirect leads to shows the flashes
\* and clears them (get_flashed_messages, lines 24-27).
RouteDone ==
    /\ request.pc = "done"
    /\ request' = NoRequest
    /\ ResetCall
    /\ UNCHANGED <<config, threads>>

NextRoute ==
    \/ RouteGenerate
    \/ LoopIteration
    \/ GenerateReturn
    \/ RouteAddCustom
    \/ RouteAccountMissing
    \/ RouteAddDomain
    \/ RouteRespond
    \/ RouteDone

\* The routes run on a dictionary of one token per list.
InitRoute ==
    /\ Init
    /\ Len(dictionary.prefixes) = 1
    /\ Len(dictionary.words) = 1
    /\ Len(dictionary.suffixes) = 1

RouteSpec == InitRoute /\ [][NextRoute]_vars

\* The calls of generate_subdomains that ask for more full domains than the
\* flags allow labels (two labels without both flags: prefix-word and
\* word-suffix). A call that has started runs on: the loop and the return
\* are straight-line Python, nothing blocks them.
CallGenerateBeyondLabelSpace ==
    /\ CallGenerateSubdomains
    /\ pc' = "loop"
    /\ count' > Cardinality(generate_subdomain_name(use_prefix', use_suffix'))

NextGenerate ==
    \/ CallGenerateBeyondLabelSpace
    \/ LoopIteration
    \/ GenerateReturn
    \/ Finish

FairSpec ==
    Init /\ [][NextGenerate]_vars /\ WF_vars(LoopIteration) /\ WF_vars(GenerateReturn)

(***************************************************************************)
(* The generator over every token of the shipped dictionary               *)
(***************************************************************************)

\* The n-th token of a list, counting round the list again past its end.
TokenAt(list, n) == list[((n - 1) % Len(list)) + 1]

\* A longest token of a list.
LongestToken(list) ==
    CHOOSE t \in Range(list) : \A u \in Range(list) : Len(u) <= Len(t)

\* The length of the longest of the three lists of SUBDOMAIN_DICTIONARY.
LongestListLen ==
    LET lens == {Len(SUBDOMAIN_DICTIONARY.prefixes), Len(SUBDOMAIN_DICTIONARY.words),
                 Len(SUBDOMAIN_DICTIONARY.suffixes)}
    IN  CHOOSE n \in lens : \A m \in lens : m <= n

\* self.dictionary (line 58) cut down to one token a list, so that the
\* cuts together hold every token of lines 29-53, and one cut holds the
\* longest token of each list (the longest label random.choice can build).
TokenDictionaries ==
    {[prefixes |-> <<TokenAt(SUBDOMAIN_DICTIONARY.prefixes, n)>>,
      words    |-> <<TokenAt(SUBDOMAIN_DICTIONARY.words, n)>>,
      suffixes |-> <<TokenAt(SUBDOMAIN_DICTIONARY.suffixes, n)>>] : n \in 1..LongestListLen}
    \cup
    {[prefixes |-> <<LongestToken(SUBDOMAIN_DICTIONARY.prefixes)>>,
      words    |-> <<LongestToken(SUBDOMAIN_DICTIONARY.words)>>,
      suffixes |-> <<LongestToken(SUBDOMAIN_DICTIONARY.suffixes)>>]}

InitLabel ==
    /\ main_domains = Take(MAIN_DOMAINS, NDomains)
    /\ dictionary \in TokenDictionaries
    /\ NoCall
    /\ threads = [t \in Callers |-> NoFrame]
    /\ request = NoRequest

\* The caller submits the label generate_subdomain_name returned (line 84)
\* to create_custom_subdomain with a main domain: lines 104-128.
CallCreateWithGeneratedLabel ==
    /\ UNCHANGED <<threads, request>>
    /\ pc = "returned"
    /\ op = "generate_subdomain_name"
    /\ \E d \in DomainInputs : StartCreateCustomSubdomain(result, d)

NextLabel ==
    \/ CallGenerateSubdomainName
    \/ CallCreateWithGeneratedLabel
    \/ CallGenerateSubdomains
    \/ LoopIteration
    \/ GenerateReturn
    \/ CallGetRandomSuggestions
    \/ Finish

LabelSpec == InitLabel /\ [][NextLabel]_vars

(***************************************************************************)
(* Vocabulary of the claims                                                *)
(***************************************************************************)

\* The error kinds of the specification (section 7), by ValueError message.
ErrorKind(msg) ==
    CASE msg = ERR_NOT_ALLOWED  -> "InvalidDomainError"
      [] msg = ERR_EMPTY        -> "EmptyLabelError"
      [] msg = ERR_ONLY_INVALID -> "EmptyLabelError"
      [] msg = ERR_TOO_LONG     -> "LabelTooLongError"
      [] OTHER                  -> "other"

Returned(method) == op = method /\ pc = "returned"

Raised(method) == op = method /\ pc = "raised"

InAllowlist(domain) == \E i \in 1..Len(main_domains) : main_domains[i] = domain

NoDuplicates(l) == \A i, j \in 1..Len(l) : l[i] = l[j] => i = j

EndsWith(s, tail) ==
    Len(s) >= Len(tail) /\ SubSeq(s, Len(s) - Len(tail) + 1, Len(s)) = tail

NatMax(a, b) == IF a >= b THEN a ELSE b

NatMin(a, b) == IF a <= b THEN a ELSE b

\* The labels generateLabel can produce, as the specification describes
\* them (section 4.1): prefix-word and word-suffix under every flag
\* combination, prefix-word-suffix when both flags are set.
SpecLabels(with_prefix, with_suffix) ==
    LET P == Range(dictionary.prefixes)
        W == Range(dictionary.words)
        S == Range(dictionary.suffixes)
    IN  {p \o <<"-">> \o w : p \in P, w \in W}
        \cup {w \o <<"-">> \o x : w \in W, x \in S}
        \cup (IF with_prefix /\ with_suffix
              THEN {p \o <<"-">> \o w \o <<"-">> \o x : p \in P, w \in W, x \in S}
              ELSE {})

\* The number of distinct labels the dictionary yields under the flags of
\* the running call.
LabelSpace == Cardinality(SpecLabels(use_prefix, use_suffix))

\* The full domains label + "." + domain of a set of labels.
FullDomainsOf(labels, domain) == {l \o <<".">> \o domain : l \in labels}

\* The reference normalization N of a label: lower-case; replace every
\* character outside [a-z0-9-] by a hyphen; drop every hyphen that follows a
\* hyphen; drop the hyphens at both ends.
RefAllowed == Range(ASCII_LOWER) \cup ASCII_DIGITS \cup {"-"}

RefReplace(s) == [i \in 1..Len(s) |-> IF s[i] \in RefAllowed THEN s[i] ELSE "-"]

RECURSIVE RefCollapseFrom(_, _)
RefCollapseFrom(s, i) ==
    IF i > Len(s) THEN <<>>
    ELSE (IF s[i] = "-" /\ i > 1 /\ s[i - 1] = "-" THEN <<>> ELSE <<s[i]>>)
         \o RefCollapseFrom(s, i + 1)

RECURSIVE RefStripHyphens(_)
RefStripHyphens(s) ==
    IF s = <<>> THEN <<>>
    ELSE IF Head(s) = "-" THEN RefStripHyphens(Tail(s))
    ELSE IF s[Len(s)] = "-" THEN RefStripHyphens(SubSeq(s, 1, Len(s) - 1))
    ELSE s

RefNormalize(s) == RefStripHyphens(RefCollapseFrom(RefReplace(Lower(s)), 1))

\* Whether token x stands in a list.
InList(list, x) == \E i \in 1..Len(list) : list[i] = x

\* The position of the first character c of s from i on (Len(s) + 1 when
\* there is none).
RECURSIVE NextSep(_, _, _)
NextSep(s, c, i) ==
    IF i > Len(s) \/ s[i] = c THEN i ELSE NextSep(s, c, i + 1)

\* The tokens of a label: the pieces between its hyphens.
RECURSIVE TokensFrom(_, _)
TokensFrom(s, i) ==
    LET j == NextSep(s, "-", i)
    IN  IF j > Len(s) THEN <<SubSeq(s, i, Len(s))>>
        ELSE <<SubSeq(s, i, j - 1)>> \o TokensFrom(s, j + 1)

Tokens(label) == TokensFrom(label, 1)

\* The label of a full domain label + "." + domain.
LabelOf(full, domain) == SubSeq(full, 1, Len(full) - Len(domain) - 1)

GEN == "generate_subdomains"

LABEL == "generate_subdomain_name"

MAINS == "get_main_domains"

\* The allowlist the generator is constructed with.
Allowlist == Take(MAIN_DOMAINS, NDomains)

CUSTOM == "create_custom_subdomain"

SUGGEST == "get_random_suggestions"


(***************************************************************************)
(* Claims about generate_subdomains                                        *)
(***************************************************************************)

\* C1 as stated: for a valid main domain and 0 <= count <= the number of
\* labels the flags allow, the call returns exactly count distinct full
\* domains, each ending in "." + main_domain, whatever random.choice picks.
C1_ExactlyCount ==
    (Returned(GEN) /\ 0 <= count /\ count <= LabelSpace) =>
        /\ Len(result) = count
        /\ NoDuplicates(result)
        /\ \A i \in 1..Len(result) : EndsWith(result[i], <<".">> \o main_domain)

\* C1 as amended: for a valid main domain and 0 <= count <= the number of
\* labels the flags allow, the call returns at least min(count, 1) and at
\* most count distinct full domains, each ending in "." + main_domain.
C1_BetweenOneAndCount ==
    (Returned(GEN) /\ 0 <= count /\ count <= LabelSpace) =>
        /\ NatMin(count, 1) <= Len(result)
        /\ Len(result) <= count
        /\ NoDuplicates(result)
        /\ \A i \in 1..Len(result) : EndsWith(result[i], <<".">> \o main_domain)

\* A call with count = 2 within the label space that returned 2 full domains.
C1_Witness ==
    /\ Returned(GEN)
    /\ count = 2
    /\ count <= LabelSpace
    /\ Len(result) = 2

\* C2 as stated: a call makes at most 3 x count label generations, makes a
\* label generation only while fewer than count distinct full domains are
\* collected, and the while ends exactly when the set holds count entries or
\* 3 x count attempts were made.
C2_AtMostThreeTimesCount ==
    /\ [](pc = "loop" => label_gens <= RetryFactor * count)
    /\ [][label_gens' > label_gens =>
             /\ Cardinality(subdomains) < count
             /\ attempts < RetryFactor * count]_vars
    /\ [][(pc = "loop" /\ pc' # "loop") =>
             \/ Cardinality(subdomains) = count
             \/ attempts = RetryFactor * count]_vars

\* C2 as amended: a call makes at most 3 x max(count, 0) label generations,
\* makes a label generation only while fewer than count distinct full
\* domains are collected and fewer than 3 x count attempts were made, and
\* the while ends exactly when the set holds at least count entries or at
\* least 3 x count attempts were made (for count >= 0: exactly count entries
\* or exactly 3 x count attempts).
C2_AtMostThreeTimesMaxCountZero ==
    /\ [](pc = "loop" =>
             /\ label_gens <= RetryFactor * NatMax(count, 0)
             /\ label_gens = attempts)
    /\ [][label_gens' > label_gens =>
             /\ label_gens' = label_gens + 1
             /\ Cardinality(subdomains) < count
             /\ attempts < RetryFactor * count]_vars
    /\ [][(pc = "loop" /\ pc' # "loop") =>
             /\ Cardinality(subdomains) >= count \/ attempts >= RetryFactor * count
             /\ count >= 0 =>
                   \/ Cardinality(subdomains) = count
                   \/ attempts = RetryFactor * count]_vars
    /\ [][(pc = "loop" /\ pc' = "loop") => label_gens' = label_gens + 1]_vars

\* A call with count = 2 that used all of its 6 attempts.
C2_Witness ==
    /\ pc = "loop"
    /\ count = 2
    /\ label_gens = 6
    /\ Cardinality(subdomains) = 1


\* C3: for a valid main domain and a count larger than the number of labels
\* the flags allow, the call raises no error, ends, and returns a list
\* without duplicates of fewer than count entries.
C3_TerminatesWithFewer ==
    /\ []((op = GEN /\ InAllowlist(main_domain) /\ count > LabelSpace) =>
             /\ pc \in {"loop", "returned"}
             /\ error = "none"
             /\ pc = "returned" => (Len(result) < count /\ NoDuplicates(result)))
    /\ ((pc = "loop" /\ count > LabelSpace) ~> Returned(GEN))

\* A call with count beyond the label space that returned every label.
C3_Witness ==
    /\ Returned(GEN)
    /\ count > LabelSpace
    /\ Len(result) = LabelSpace

\* C4 as stated: the list a call returns has at most count entries, no two
\* of them equal, each of them label + "." + main_domain for a label the
\* flags allow.
C4_AtMostCountEntries ==
    Returned(GEN) =>
        /\ Len(result) <= count
        /\ NoDuplicates(result)
        /\ \A i \in 1..Len(result) :
              result[i] \in FullDomainsOf(SpecLabels(use_prefix, use_suffix), main_domain)

\* C4 as amended: the list a call returns has at most max(count, 0)
\* entries, no two of them equal, each of them label + "." + main_domain for
\* a label the flags allow.
C4_AtMostMaxCountZeroEntries ==
    Returned(GEN) =>
        /\ Len(result) <= NatMax(count, 0)
        /\ NoDuplicates(result)
        /\ \A i \in 1..Len(result) :
              result[i] \in FullDomainsOf(SpecLabels(use_prefix, use_suffix), main_domain)

\* A call without the suffix flag that returned two full domains.
C4_Witness ==
    /\ Returned(GEN)
    /\ use_prefix
    /\ ~use_suffix
    /\ Len(result) = 2
    /\ result[1] # result[2]


\* C5: a call of generate_subdomains with a main domain that is not, letter
\* for letter, an element of the allowlist raises InvalidDomainError, and
\* does so before a label is generated or random.choice is called.
C5_InvalidDomainBeforeGeneration ==
    (op = GEN /\ ~InAllowlist(main_domain)) =>
        /\ pc = "raised"
        /\ ErrorKind(error) = "InvalidDomainError"
        /\ label_gens = 0
        /\ ~rng_used
        /\ subdomains = {}
        /\ attempts = 0
        /\ result = <<>>

\* A call with the first main domain written in capitals was rejected.
C5_Witness ==
    /\ Raised(GEN)
    /\ ~InAllowlist(main_domain)
    /\ InAllowlist(Lower(main_domain))
    /\ error = ERR_NOT_ALLOWED

(***************************************************************************)
(* Claims about generate_subdomain_name and the dictionary                 *)
(***************************************************************************)

\* The shape C11 gives a label generated under the flags: exactly one of its
\* hyphen-joined tokens stands in the words list; it has 2 or 3 tokens, of
\* the form prefix-word, word-suffix or prefix-word-suffix; 3 tokens only
\* when both flags are set, and exactly 2 when neither is.
LabelShape(label, with_prefix, with_suffix) ==
    LET t == Tokens(label)
        P == dictionary.prefixes
        W == dictionary.words
        S == dictionary.suffixes
    IN  /\ Cardinality({i \in 1..Len(t) : InList(W, t[i])}) = 1
        /\ Len(t) \in 2..3
        /\ \/ Len(t) = 2 /\ InList(P, t[1]) /\ InList(W, t[2])
           \/ Len(t) = 2 /\ InList(W, t[1]) /\ InList(S, t[2])
           \/ Len(t) = 3 /\ InList(P, t[1]) /\ InList(W, t[2]) /\ InList(S, t[3])
        /\ Len(t) = 3 => (with_prefix /\ with_suffix)
        /\ (~with_prefix /\ ~with_suffix) => Len(t) = 2

\* C11: every label generate_subdomain_name returns, under each of the four
\* flag combinations and whatever random.choice picks, has the shape above:
\* the labels a generate_subdomains call has collected under its flags, and
\* the labels of the suggestions (both flags set).
C11_LabelShape ==
    /\ Returned(LABEL) => LabelShape(result, use_prefix, use_suffix)
    /\ (op = GEN /\ pc = "loop") =>
           \A full \in subdomains :
              LabelShape(LabelOf(full, main_domain), use_prefix, use_suffix)
    /\ Returned(SUGGEST) =>
           \A i \in 1..Len(result) : LabelShape(result[i].subdomain, TRUE, TRUE)

\* C16: the lists prefixes, words and suffixes of the dictionary are
\* pairwise disjoint: no token stands in two of them.
C16_ListsPairwiseDisjoint ==
    /\ Range(dictionary.prefixes) \cap Range(dictionary.words) = {}
    /\ Range(dictionary.prefixes) \cap Range(dictionary.suffixes) = {}
    /\ Range(dictionary.words) \cap Range(dictionary.suffixes) = {}

(***************************************************************************)
(* Claims about get_main_domains and the configuration                     *)
(***************************************************************************)

\* C12: every get_main_domains call, whatever was called before it, returns
\* the allowlist in its fixed order (so any two calls return equal
\* sequences), and a change the caller makes to a returned list changes
\* neither the allowlist that validation uses nor what a later call returns.
C12_MainDomainsCopy ==
    /\ [][(pc = "idle" /\ op' = MAINS) =>
             /\ pc' = "returned"
             /\ result'.items = Allowlist
             /\ result'.items = main_domains]_vars
    /\ [][(op = MAINS /\ op' = MAINS /\ result' # result) =>
             /\ result'.items # result.items
             /\ main_domains' = main_domains
             /\ main_domains' = Allowlist]_vars
    /\ [][(pc = "idle" /\ op' \in {GEN, CUSTOM}) =>
             (pc' = "raised" /\ error' = ERR_NOT_ALLOWED)
                <=> ~(\E i \in 1..Len(Allowlist) : Allowlist[i] = main_domain')]_vars

\* The caller has appended a domain to the list it was given; the allowlist
\* does not hold that domain.
C12_Witness ==
    /\ Returned(MAINS)
    /\ Len(result.items) = Len(main_domains) + 1
    /\ ~InAllowlist(result.items[Len(result.items)])
    /\ main_domains = Allowlist

\* C13: no call of get_main_domains, generate_subdomain_name,
\* generate_subdomains, create_custom_subdomain or get_random_suggestions,
\* returning or raising, changes the allowlist or a list of the dictionary;
\* every generate_subdomains call starts from an empty set and no attempts,
\* whatever earlier calls returned, and returns what it collected itself, so
\* a full domain an earlier call returned can be returned again.
C13_NoStateBetweenCalls ==
    /\ [][main_domains' = main_domains /\ dictionary' = dictionary]_vars
    /\ [][(pc # "loop" /\ pc' = "loop") =>
             /\ subdomains' = {}
             /\ attempts' = 0
             /\ label_gens' = 0]_vars
    /\ [][(pc = "loop" /\ pc' = "returned") =>
             /\ Len(result') = Cardinality(subdomains)
             /\ \A full \in subdomains : \E i \in 1..Len(result') : result'[i] = full]_vars

\* A second generate_subdomains call has collected the very full domain the
\* first call returned and the caller still holds.
C13_Witness ==
    /\ op = GEN
    /\ pc = "loop"
    /\ Len(result) = 1
    /\ subdomains = {result[1]}
    /\ ~LoopCond

(***************************************************************************)
(* Claims about concurrent calls                                           *)
(***************************************************************************)

\* What C14 says of the call of caller t once it has returned, with the
\* given limit on its entries: the list has no duplicates and at most limit
\* entries, each under the call's own main domain and built by the call
\* itself, and the call made at most 3 x limit attempts.
ThreadResultWithin(t, limit) ==
    LET f == threads[t]
    IN  /\ NoDuplicates(f.result)
        /\ Len(f.result) <= limit
        /\ f.attempts <= RetryFactor * limit
        /\ \A i \in 1..Len(f.result) :
              /\ EndsWith(f.result[i], <<".">> \o f.main_domain)
              /\ f.result[i] \in f.generated
        /\ Cardinality(f.generated) <= f.attempts

\* C14 as stated: with the steps of concurrent generate_subdomains calls
\* interleaved in any order, each call returns a list without duplicates of
\* at most its own count entries, all under its own main domain, after at
\* most 3 x its own count attempts, and no entry of it was generated by
\* another call.
C14_EachCallWithinCount ==
    \A t \in Callers :
       threads[t].pc = "returned" => ThreadResultWithin(t, threads[t].count)

\* C14 as amended: the same with max(count, 0) for count.
C14_EachCallWithinMaxCountZero ==
    \A t \in Callers :
       threads[t].pc = "returned" => ThreadResultWithin(t, NatMax(threads[t].count, 0))

\* Caller A has returned a full domain while caller B, under another main
\* domain, stands between building a full domain and adding it.
C14_Witness ==
    /\ threads["A"].pc = "returned"
    /\ Len(threads["A"].result) = 1
    /\ threads["B"].pc = "add"
    /\ threads["B"].main_domain # threads["A"].main_domain
    /\ threads["B"].full_subdomain \notin threads["A"].generated

(***************************************************************************)
(* Claims about the routes                                                 *)
(***************************************************************************)

\* The flash messages the request has recorded itself.
RequestFlashes == SubSeq(request.flashes, request.earlier + 1, Len(request.flashes))

\* The number the recorded messages of a kind report.
RECURSIVE ReportedFrom(_, _, _)
ReportedFrom(flashes, kind, i) ==
    IF i > Len(flashes) THEN 0
    ELSE (IF flashes[i].kind = kind THEN flashes[i].n ELSE 0)
         + ReportedFrom(flashes, kind, i + 1)

Reported(kind) == ReportedFrom(RequestFlashes, kind, 1)

C18_ValidationErrorHandled ==
    (request.route \in {"generate", "add_custom"} /\ pc = "raised") =>
        /\ request.add_calls = <<>>
        /\ request.pc \in {"called", "done"}
        /\ request.pc = "called" =>
              /\ RequestFlashes = <<>>
              /\ request.response = "none"
        /\ request.pc = "done" =>
              /\ Len(RequestFlashes) = 1
              /\ RequestFlashes[1].category = "error"
              /\ RequestFlashes[1].message = error
              /\ request.response = "redirect"
        /\ \A i \in 1..request.earlier : request.flashes[i] = EARLIER_FLASH

\* The add-custom route has answered a label of invalid characters only
\* with one error message after the one that was there.
C18_Witness ==
    /\ request.route = "add_custom"
    /\ request.pc = "done"
    /\ pc = "raised"
    /\ error = ERR_ONLY_INVALID
    /\ request.earlier = 1
    /\ Len(request.flashes) = 2
    /\ request.response = "redirect"

(***************************************************************************)
(* Claims about create_custom_subdomain                                    *)
(***************************************************************************)

\* C6: a call of create_custom_subdomain with a main domain that is not,
\* letter for letter, an element of the allowlist raises InvalidDomainError
\* whatever the label is, also when the label is empty, normalizes to
\* nothing or is too long.
C6_InvalidDomainFirst ==
    (op = CUSTOM /\ ~InAllowlist(main_domain)) =>
        /\ pc = "raised"
        /\ ErrorKind(error) = "InvalidDomainError"
        /\ result = <<>>

\* A call with a main domain outside the allowlist and a label that is also
\* too long was rejected.
C6_Witness ==
    /\ Raised(CUSTOM)
    /\ ~InAllowlist(main_domain)
    /\ Len(RefNormalize(subdomain_name)) > MaxLabelLen

\* C7: when create_custom_subdomain returns, it returns
\* N(label) + "." + main_domain for the reference normalization N.
C7_ReturnsNormalizedLabel ==
    Returned(CUSTOM) =>
        /\ InAllowlist(main_domain)
        /\ result = RefNormalize(subdomain_name) \o <<".">> \o main_domain

\* "My Cool Router!" was turned into "my-cool-router".
C7_Witness ==
    /\ Returned(CUSTOM)
    /\ subdomain_name = <<"M","y"," ","C","o","o","l"," ","R","o","u","t","e","r","!">>
    /\ result = <<"m","y","-","c","o","o","l","-","r","o","u","t","e","r",".">> \o main_domain

\* C8: with a main domain of the allowlist, a label that is empty, that is
\* empty once trimmed and lower-cased, or whose normalization is empty
\* raises EmptyLabelError; no full domain with an empty label is returned.
C8_EmptyLabelRejected ==
    /\ (/\ op = CUSTOM
        /\ InAllowlist(main_domain)
        /\ \/ subdomain_name = <<>>
           \/ Strip(Lower(subdomain_name), WHITESPACE) = <<>>
           \/ RefNormalize(subdomain_name) = <<>>) =>
            /\ pc = "raised"
            /\ ErrorKind(error) = "EmptyLabelError"
    /\ Returned(CUSTOM) =>
            /\ Len(result) > Len(main_domain) + 1
            /\ result[1] # "."

\* A label of hyphens only was rejected after normalization.
C8_Witness ==
    /\ Raised(CUSTOM)
    /\ InAllowlist(main_domain)
    /\ subdomain_name = <<"-","-","-">>
    /\ error = ERR_ONLY_INVALID

\* C9: with a main domain of the allowlist and a label whose normalization
\* is not empty, LabelTooLongError is raised exactly when the normalized
\* label has more than 63 characters; otherwise the call returns, however
\* long the raw label is.
C9_TooLongIffOver63 ==
    (op = CUSTOM /\ InAllowlist(main_domain) /\ RefNormalize(subdomain_name) # <<>>) =>
        /\ (pc = "raised" /\ ErrorKind(error) = "LabelTooLongError")
              <=> Len(RefNormalize(subdomain_name)) > 63
        /\ Len(RefNormalize(subdomain_name)) <= 63 => pc = "returned"
        /\ pc \in {"raised", "returned"}

\* A raw label of more than 63 characters whose normalization has exactly 63
\* was accepted.
C9_Witness ==
    /\ Returned(CUSTOM)
    /\ Len(subdomain_name) > 63
    /\ Len(RefNormalize(subdomain_name)) = 63

\* The outcome the specification gives create_custom_subdomain for a label
\* and a main domain: whether it returns or raises, the full domain and the
\* error kind.
RefOutcome(label, domain) ==
    IF ~(\E i \in 1..Len(Allowlist) : Allowlist[i] = domain)
    THEN [pc |-> "raised", result |-> <<>>, kind |-> "InvalidDomainError"]
    ELSE IF RefNormalize(label) = <<>>
    THEN [pc |-> "raised", result |-> <<>>, kind |-> "EmptyLabelError"]
    ELSE IF Len(RefNormalize(label)) > 63
    THEN [pc |-> "raised", result |-> <<>>, kind |-> "LabelTooLongError"]
    ELSE [pc |-> "returned", result |-> RefNormalize(label) \o <<".">> \o domain,
          kind |-> "other"]

\* C15: whatever was called before, the outcome of a create_custom_subdomain
\* call (return or raise, the full domain, the error kind) is a function of
\* its label and main domain alone, so two calls with the same arguments
\* give the same outcome; the call makes no random choice and generates no
\* label.
C15_OutcomeFunctionOfArguments ==
    [][(pc = "idle" /\ op' = CUSTOM) =>
          /\ [pc |-> pc', result |-> result', kind |-> ErrorKind(error')]
                = RefOutcome(subdomain_name', main_domain')
          /\ rng_used' = FALSE
          /\ label_gens' = 0]_vars

\* "valid-name" was accepted as it is, without a random choice.
C15_Witness ==
    /\ Returned(CUSTOM)
    /\ subdomain_name = <<"v","a","l","i","d","-","n","a","m","e">>
    /\ result = subdomain_name \o <<".">> \o main_domain
    /\ ~rng_used

\* The part of a full domain before its first dot, and the part after it.
FirstLabel(full) == SubSeq(full, 1, NextSep(full, ".", 1) - 1)

AfterFirstLabel(full) == SubSeq(full, NextSep(full, ".", 1) + 1, Len(full))

\* C19: the full domain create_custom_subdomain returns is a label, a dot
\* and a main domain of the allowlist, where the label is not empty, has at
\* most 63 characters, all of them in [a-z0-9-], has no two hyphens in a row
\* and neither begins nor ends with a hyphen.
C19_ReturnedLabelWellFormed ==
    Returned(CUSTOM) =>
        LET label == FirstLabel(result)
        IN  /\ NextSep(result, ".", 1) <= Len(result)
            /\ InAllowlist(AfterFirstLabel(result))
            /\ AfterFirstLabel(result) = main_domain
            /\ label # <<>>
            /\ Len(label) <= 63
            /\ \A i \in 1..Len(label) : label[i] \in RefAllowed
            /\ \A i \in 1..(Len(label) - 1) : ~(label[i] = "-" /\ label[i + 1] = "-")
            /\ label[1] # "-"
            /\ label[Len(label)] # "-"

\* "a--b__4k" was returned as "a-b-4k".
C19_Witness ==
    /\ Returned(CUSTOM)
    /\ subdomain_name = <<"a","-","-","b","_","_","4","k">>
    /\ FirstLabel(result) = <<"a","-","b","-","4","k">>

\* C20: when create_custom_subdomain(label, d) has returned L + "." + d, the
\* call create_custom_subdomain(L, d) returns too, and returns the same
\* string.
C20_NormalizationIdempotent ==
    [][(Returned(CUSTOM) /\ op' = CUSTOM) =>
          /\ subdomain_name' = FirstLabel(result)
          /\ main_domain' = main_domain
          /\ pc' = "returned"
          /\ result' = result]_vars

\* The label "my-cool-router" that was returned for "My Cool Router!" has
\* been submitted and returned again.
C20_Witness ==
    /\ Returned(CUSTOM)
    /\ subdomain_name = <<"m","y","-","c","o","o","l","-","r","o","u","t","e","r">>
    /\ result = subdomain_name \o <<".">> \o main_domain

(***************************************************************************)
(* Claims about generated labels as custom names                           *)
(***************************************************************************)

\* C21: every label generate_subdomain_name can produce is already a valid
\* normalized label. Submitting the label g it returned with a main domain d
\* of the allowlist to create_custom_subdomain succeeds and returns exactly
\* g + "." + d; and every full domain returned by generate_subdomains or
\* get_random_suggestions comes back unchanged when its label and its main
\* domain are given to create_custom_subdomain.
C21_GeneratedLabelPassesValidation ==
    /\ [][(Returned(LABEL) /\ op' = CUSTOM /\ InAllowlist(main_domain')) =>
             /\ pc' = "returned"
             /\ error' = "none"
             /\ subdomain_name' = result
             /\ result' = result \o <<".">> \o main_domain']_vars
    /\ [](Returned(GEN) =>
             \A i \in 1..Len(result) :
                create_custom_subdomain(FirstLabel(result[i]), main_domain)
                    = Return(result[i]))
    /\ [](Returned(SUGGEST) =>
             \A i \in 1..Len(result) :
                create_custom_subdomain(result[i].subdomain, result[i].main_domain)
                    = Return(result[i].full_domain))

\* The longest label the shipped dictionary allows (27 characters: a longest
\* prefix, the longest word and a longest suffix) was generated, submitted
\* with the first main domain and returned.
C21_Witness ==
    /\ Returned(CUSTOM)
    /\ dictionary.words = <<LongestToken(SUBDOMAIN_DICTIONARY.words)>>
    /\ subdomain_name = dictionary.prefixes[1] \o <<"-">> \o dictionary.words[1]
                            \o <<"-">> \o dictionary.suffixes[1]
    /\ Len(subdomain_name) = 27
    /\ main_domain = Allowlist[1]
    /\ result = subdomain_name \o <<".">> \o main_domain

(***************************************************************************)
(* Claims about counts that ask for nothing                                *)
(***************************************************************************)

\* C22: for a main domain of the allowlist and any count <= 0 (zero or
\* negative), generate_subdomains generates no label, raises no error and
\* returns an empty result: the call goes from the first test of the while
\* straight to the return, without a draw from the random module.
C22_NonPositiveCountReturnsEmpty ==
    /\ [](op = GEN /\ InAllowlist(main_domain) /\ count <= 0 =>
             /\ pc \in {"loop", "returned"}
             /\ error = "none"
             /\ label_gens = 0
             /\ ~rng_used
             /\ (pc = "loop" => subdomains = {} /\ attempts = 0)
             /\ (pc = "returned" => result = <<>>))
    /\ [][(op = GEN /\ pc = "loop" /\ InAllowlist(main_domain) /\ count <= 0) =>
             /\ pc' = "returned"
             /\ result' = <<>>
             /\ error' = "none"
             /\ label_gens' = 0
             /\ rng_used' = rng_used]_vars

\* A call with count = -1 and a main domain of the allowlist returned the
\* empty list.
C22_Witness ==
    /\ Returned(GEN)
    /\ InAllowlist(main_domain)
    /\ count = -1
    /\ result = <<>>
    /\ ~rng_used

(***************************************************************************)
(* Claims about the size of a generate request                             *)
(***************************************************************************)

\* C23: the generate route caps the submitted count at 50 before it calls
\* generate_subdomains, so one generate request performs at most 150 label
\* generations and at most 50 add_domain calls, whatever count the client
\* submits: unless the account is missing (no call at all), the count of the
\* call is min(submitted, 50), the loop has made at
\* most 150 attempts and label generations at every moment, the returned
\* list has at most 50 full domains and add_domain has been called at most
\* once for each of them.
C23_RequestWithinCap ==
    request.route = "generate" =>
        /\ (request.response # "404" =>
               op = GEN /\ count = NatMin(request.submitted, 50))
        /\ label_gens <= 150
        /\ attempts <= 150
        /\ Cardinality(subdomains) <= 50
        /\ (pc = "returned" => Len(result) <= 50)
        /\ Len(request.add_calls) <= 50
        /\ (pc = "returned" => Len(request.add_calls) <= Len(result))
        /\ (pc # "returned" => request.add_calls = <<>>)

\* A request that submitted count = 51 is in the loop of a call with
\* count = 50 that has made all of its 150 label generations.
C23_Witness ==
    /\ request.route = "generate"
    /\ request.submitted = 51
    /\ pc = "loop"
    /\ count = 50
    /\ label_gens = 150
    /\ attempts = max_attempts

(***************************************************************************)
(* Claims about get_random_suggestions                                     *)
(***************************************************************************)

\* C10: for every integer count, get_random_suggestions raises no error and
\* returns exactly max(count, 0) entries, each with a main domain of the
\* allowlist, a label generateLabel(true, true) can produce, and
\* full_domain = label + "." + main domain.
C10_SuggestionsExactlyMaxCountZero ==
    op = SUGGEST =>
        /\ pc = "returned"
        /\ error = "none"
        /\ Len(result) = NatMax(count, 0)
        /\ \A i \in 1..Len(result) :
              /\ InAllowlist(result[i].main_domain)
              /\ result[i].subdomain \in SpecLabels(TRUE, TRUE)
              /\ result[i].full_domain =
                    result[i].subdomain \o <<".">> \o result[i].main_domain

\* A call with count = 2 returned two suggestions under different main
\* domains.
C10_Witness ==
    /\ Returned(SUGGEST)
    /\ count = 2
    /\ Len(result) = 2
    /\ result[1].main_domain # result[2].main_domain

====
